---------------------------- MODULE Spec2Model ----------------------------
(***************************************************************************)
(* Model of the video search engine: the video-query path                  *)
(* (search_by_video: chat_with_gemini -> extract_frames_from_video ->      *)
(* os.listdir -> generate_collage), the caption path                       *)
(* (find_matched_captions) and the collage layout (create_collage).        *)
(*                                                                         *)
(* Time values are exact integers in milliseconds (the code uses binary    *)
(* floats; the inputs of the model have at most three fractional digits).  *)
(* A string is a tuple of one-character strings.                           *)
(***************************************************************************)
EXTENDS Integers, Sequences, FiniteSets, TLC

VARIABLES
    pc,               \* position of the program
    run,              \* number of search_by_video runs started so far
    file_state,       \* chat_with_gemini: video_file.state
    retries,          \* chat_with_gemini: retries
    time_points,      \* extract_frames_from_video: argument
    idx,              \* extract_frames_from_video: position of the for loop (1-based)
    video,            \* the cv2.VideoCapture handle: "none", "open", "released"
    frames_per_second,
    extracted_files,  \* extract_frames_from_video: extracted_files
    dir_files,        \* the files of EXTRACTED_IMAGES_DIR (frame_<k>s.jpg is k)
    log,              \* what each processed element of time_points ended with
    images_path_list, \* generate_collage / create_collage: argument
    cols, rows, thumb_width, thumb_height,
    x_offset, y_offset,
    pasted,           \* the boxes collage.paste was called with, in order
    collage_saved,    \* collage.save was called in this run
    input_word,       \* find_matched_captions: argument
    scene_captions,   \* the caption store: json_valid and the mapping
    results           \* THRESHOLD -> matched_scenes returned under that THRESHOLD

vars == <<pc, run, file_state, retries, time_points, idx, video,
          frames_per_second, extracted_files, dir_files, log,
          images_path_list, cols, rows, thumb_width, thumb_height,
          x_offset, y_offset, pasted, collage_saved,
          input_word, scene_captions, results>>

videoVars   == <<run, file_state, retries, time_points, idx, video,
                 frames_per_second, extracted_files, dir_files, log>>
collageVars == <<images_path_list, cols, rows, thumb_width, thumb_height,
                 x_offset, y_offset, pasted, collage_saved>>
matchVars   == <<input_word, scene_captions, results>>

-----------------------------------------------------------------------------
(* Bounds of the model *)
MaxImages == 12     \* images given to the collage in SpecCollage
MaxPoints == 2      \* length of the list returned by the external model
MaxRuns   == 2      \* search_by_video runs against the same directory
MaxPolls  == 12     \* polls of the upload loop the model follows

(* Program constants *)
collage_width  == 800
collage_height == 600
max_retries    == 10

-----------------------------------------------------------------------------
(* Generic helpers *)
Range(s) == {s[i] : i \in DOMAIN s}

Reverse(s) == [i \in 1..Len(s) |-> s[Len(s) + 1 - i]]

RECURSIVE Pow60(_)
Pow60(i) == IF i = 0 THEN 1 ELSE 60 * Pow60(i - 1)

\* int(n ** 0.5): the integer part of the square root
ISqrt(n) == CHOOSE r \in 0..n : r * r <= n /\ (r + 1) * (r + 1) > n

-----------------------------------------------------------------------------
(* image_helpers.py: create_collage grid *)

GridCols(n) == IF n = 1 THEN 1 ELSE ISqrt(n) + 1

GridRowsNoRemainder(n, c) == n \div c

GridRows(n, c) == IF n % c # 0 THEN (n \div c) + 1 ELSE n \div c

-----------------------------------------------------------------------------
(* video_search_by_video.py: the time code of line 141 *)

Digits == {"0", "1", "2", "3", "4", "5", "6", "7", "8", "9"}

DigitVal(c) == CASE c = "0" -> 0 [] c = "1" -> 1 [] c = "2" -> 2 [] c = "3" -> 3
                 [] c = "4" -> 4 [] c = "5" -> 5 [] c = "6" -> 6 [] c = "7" -> 7
                 [] c = "8" -> 8 [] c = "9" -> 9

\* str.split(':'): the fields between the separators; "" splits into [""]
RECURSIVE Split(_)
Split(s) ==
    IF \A i \in 1..Len(s) : s[i] # ":"
    THEN <<s>>
    ELSE LET i == CHOOSE j \in 1..Len(s) :
                      s[j] = ":" /\ \A k \in 1..(j - 1) : s[k] # ":"
         IN  <<SubSeq(s, 1, i - 1)>> \o Split(SubSeq(s, i + 1, Len(s)))

RECURSIVE DigitsValue(_)
DigitsValue(s) ==
    IF s = <<>> THEN 0
    ELSE DigitsValue(SubSeq(s, 1, Len(s) - 1)) * 10 + DigitVal(s[Len(s)])

\* the fractional digits of a literal, in milliseconds
FractionMs(s) ==
    LET d(i) == IF i <= Len(s) THEN DigitVal(s[i]) ELSE 0
    IN  d(1) * 100 + d(2) * 10 + d(3)

\* float(x) accepts: digits with at most one '.', at least one digit
IsFloatLiteral(f) ==
    LET dots == {i \in 1..Len(f) : f[i] = "."}
    IN  /\ Cardinality(dots) <= 1
        /\ \A i \in (1..Len(f)) \ dots : f[i] \in Digits
        /\ Len(f) - Cardinality(dots) >= 1

\* float("nan") is accepted too and gives the NaN
IsNaN(f) == f = <<"n", "a", "n">>

\* float(x) of an accepted literal, in milliseconds
FloatMs(f) ==
    LET dots == {i \in 1..Len(f) : f[i] = "."}
        d    == IF dots = {} THEN Len(f) + 1 ELSE CHOOSE i \in dots : TRUE
    IN  DigitsValue(SubSeq(f, 1, d - 1)) * 1000 + FractionMs(SubSeq(f, d + 1, Len(f)))

\* enumerate(fields): the mutant forgets reversed()
PositionalFieldsNotReversed(fields) == fields

\* enumerate(reversed(fields)): position i (from 0) is the i-th field from the right
PositionalFields(fields) == Reverse(fields)

RECURSIVE SumWeighted(_, _)
SumWeighted(enum, i) ==
    IF i > Len(enum) THEN 0
    ELSE FloatMs(enum[i]) * Pow60(i - 1) + SumWeighted(enum, i + 1)

\* line 141 with its except clause: ValueError, the NaN, or the milliseconds
TimeInSeconds(chars) ==
    LET enum == PositionalFields(Split(chars))
    IN  IF \E i \in 1..Len(enum) : ~(IsFloatLiteral(enum[i]) \/ IsNaN(enum[i]))
        THEN [kind |-> "ValueError", ms |-> 0]
        ELSE IF \E i \in 1..Len(enum) : IsNaN(enum[i])
        THEN [kind |-> "nan", ms |-> 0]
        ELSE [kind |-> "num", ms |-> SumWeighted(enum, 1)]

\* round(): to the nearest integer, a tie to the even one
RoundDiv(a, b) ==
    LET q == a \div b
        r == a % b
    IN  IF 2 * r < b THEN q
        ELSE IF 2 * r > b THEN q + 1
        ELSE IF q % 2 = 0 THEN q ELSE q + 1

FrameNumberRounded(ms, fps) == RoundDiv(ms * fps, 1000)

\* line 146: int(time_in_seconds * frames_per_second) truncates
FrameNumber(ms, fps) == (ms * fps) \div 1000

\* the name of line 151: frame_<int(time_in_seconds)>s.jpg
OutputFile(ms) == ms \div 1000

-----------------------------------------------------------------------------
(* The video and the lists the external model may return *)

VideoSeconds == 150                  \* length of the video
FrameRates   == {24, 30}

\* video.read() after the seek: a frame is decoded iff the index is in the video
ReadSucceeds(frame, fps) == frame >= 0 /\ frame < VideoSeconds * fps

Str(chars) == [str |-> TRUE, chars |-> chars]

TimePointInputs ==
    { Str(<<"0", "0", ":", "1", "0", ".", "1", "0", "5">>),   \* '00:10.105'
      Str(<<"0", "0", ":", "1", "0", ".", "8">>),             \* '00:10.8'
      Str(<<"0", "0", ":", "2", "0", ".", "0", "3", "0">>),   \* '00:20.030'
      Str(<<"0", "1", ":", "0", "2", ":", "0", "3", ".", "5">>), \* '01:02:03.5'
      Str(<<"4", "2">>),                                      \* '42'
      Str(<<"a", "b", ":", "c", "d">>),                       \* 'ab:cd'
      Str(<<>>),                                              \* ''
      Str(<<"n", "a", "n">>),                                 \* 'nan'
      [str |-> FALSE, chars |-> <<>>] }                       \* a JSON number

TimePointLists ==
    UNION {[1..n -> TimePointInputs] : n \in 0..MaxPoints}

FileStates == {"PROCESSING", "ACTIVE", "FAILED"}

\* values of config.THRESHOLD
Thresholds == {0, 50, 80, 81, 100}

Perms(S) ==
    {f \in [1..Cardinality(S) -> S] : \A i, j \in 1..Cardinality(S) : f[i] = f[j] => i = j}

-----------------------------------------------------------------------------
(* video_search_by_video.py: search_by_video and what it calls *)

NoCollage ==
    /\ images_path_list = <<>>
    /\ cols = 0 /\ rows = 0 /\ thumb_width = 0 /\ thumb_height = 0
    /\ x_offset = 0 /\ y_offset = 0
    /\ pasted = <<>>
    /\ collage_saved = FALSE

NoMatch ==
    /\ input_word = <<>>
    /\ scene_captions = [json_valid |-> TRUE, items |-> <<>>]
    /\ results = [t \in Thresholds |-> [done |-> FALSE, out |-> <<>>]]

\* A run of the program: ask_user_input, connect_to_gemini, the duration, then
\* genai.upload_file (lines 167-168, 51-66). The directory outlives the run.
SearchByVideo ==
    /\ pc \in {"idle", "done", "raised"}
    /\ run < MaxRuns
    /\ run' = run + 1
    /\ \E st \in FileStates : file_state' = st
    /\ retries' = 0
    /\ time_points' = <<>>
    /\ idx' = 1
    /\ video' = "none"
    /\ extracted_files' = <<>>
    /\ log' = <<>>
    /\ images_path_list' = <<>>
    /\ cols' = 0 /\ rows' = 0 /\ thumb_width' = 0 /\ thumb_height' = 0
    /\ x_offset' = 0 /\ y_offset' = 0
    /\ pasted' = <<>>
    /\ collage_saved' = FALSE
    /\ pc' = "poll"
    /\ UNCHANGED <<frames_per_second, dir_files, matchVars>>

\* line 68: while video_file.state != State.ACTIVE
PollGuard == file_state # "ACTIVE"

\* lines 68-72: one iteration of the poll loop
Poll ==
    /\ pc = "poll"
    /\ PollGuard
    /\ retries < MaxPolls
    /\ \E st \in FileStates : file_state' = st
    /\ retries' = retries + 1
    /\ UNCHANGED <<pc, run, time_points, idx, video, frames_per_second,
                   extracted_files, dir_files, log, collageVars, matchVars>>

\* lines 74-100: the model answers with a JSON list; search_by_video hands it
\* to extract_frames_from_video (line 169)
GenerateContent ==
    /\ pc = "poll"
    /\ ~PollGuard
    /\ \E tps \in TimePointLists : time_points' = tps
    /\ file_state' = "none"
    /\ retries' = 0
    /\ pc' = "extract"
    /\ UNCHANGED <<run, idx, video, frames_per_second, extracted_files,
                   dir_files, log, collageVars, matchVars>>

\* lines 101-108: the answer is no JSON, or there is none
GenerateInvalid ==
    /\ pc = "poll"
    /\ ~PollGuard
    /\ file_state' = "none"
    /\ retries' = 0
    /\ pc' = "raised"
    /\ UNCHANGED <<run, time_points, idx, video, frames_per_second,
                   extracted_files, dir_files, log, collageVars, matchVars>>

\* lines 124-125, 131-133: the file is missing or cannot be opened
OpenVideoFails ==
    /\ pc = "extract"
    /\ pc' = "raised"
    /\ UNCHANGED <<videoVars, collageVars, matchVars>>

\* lines 127-136: the handle is opened
OpenVideo ==
    /\ pc = "extract"
    /\ video' = "open"
    /\ idx' = 1
    /\ extracted_files' = <<>>
    /\ log' = <<>>
    /\ pc' = "loop"
    /\ UNCHANGED <<run, file_state, retries, time_points, frames_per_second,
                   dir_files, collageVars, matchVars>>

Entry(i, outcome, ms, frame, file) ==
    [tp |-> i, outcome |-> outcome, ms |-> ms, frame |-> frame, file |-> file]

\* lines 139-144: float() raises ValueError, the element is skipped
ExtractInvalid ==
    /\ pc = "loop"
    /\ idx <= Len(time_points)
    /\ time_points[idx].str
    /\ TimeInSeconds(time_points[idx].chars).kind = "ValueError"
    /\ log' = Append(log, Entry(idx, "invalid", -1, -1, -1))
    /\ idx' = idx + 1
    /\ UNCHANGED <<pc, run, file_state, retries, time_points, video,
                   frames_per_second, extracted_files, dir_files,
                   collageVars, matchVars>>

\* line 141: an element that is no string has no split (AttributeError);
\* line 146: int() of the NaN raises ValueError outside the try
ExtractRaises ==
    /\ pc = "loop"
    /\ idx <= Len(time_points)
    /\ \/ ~time_points[idx].str
       \/ /\ time_points[idx].str
          /\ TimeInSeconds(time_points[idx].chars).kind = "nan"
    /\ pc' = "raised"
    /\ UNCHANGED <<videoVars, collageVars, matchVars>>

\* lines 146-155: seek, read, and save the frame or warn
ExtractFrame ==
    /\ pc = "loop"
    /\ idx <= Len(time_points)
    /\ time_points[idx].str
    /\ TimeInSeconds(time_points[idx].chars).kind = "num"
    /\ LET ms    == TimeInSeconds(time_points[idx].chars).ms
           frame == FrameNumber(ms, frames_per_second)
       IN  IF ReadSucceeds(frame, frames_per_second)
           THEN /\ dir_files' = dir_files \cup {OutputFile(ms)}
                /\ extracted_files' = Append(extracted_files, OutputFile(ms))
                /\ log' = Append(log, Entry(idx, "saved", ms, frame, OutputFile(ms)))
           ELSE /\ log' = Append(log, Entry(idx, "nodecode", ms, frame, -1))
                /\ UNCHANGED <<dir_files, extracted_files>>
    /\ idx' = idx + 1
    /\ UNCHANGED <<pc, run, file_state, retries, time_points, video,
                   frames_per_second, collageVars, matchVars>>

\* lines 157-158: the loop is over
ReleaseAndReturn ==
    /\ pc = "loop"
    /\ idx > Len(time_points)
    /\ video' = "released"
    /\ pc' = "listdir"
    /\ UNCHANGED <<run, file_state, retries, time_points, idx, frames_per_second,
                   extracted_files, dir_files, log, collageVars, matchVars>>

\* lines 170-172: every file of the directory, in the order os.listdir gives
ListDir ==
    /\ pc = "listdir"
    /\ \E order \in Perms(dir_files) : images_path_list' = order
    /\ pc' = "generate_collage"
    /\ UNCHANGED <<videoVars, cols, rows, thumb_width, thumb_height,
                   x_offset, y_offset, pasted, collage_saved, matchVars>>

-----------------------------------------------------------------------------
(* image_helpers.py: generate_collage and create_collage *)

\* lines 9-11: nothing to show
GenerateCollageEmpty ==
    /\ pc = "generate_collage"
    /\ images_path_list = <<>>
    /\ pc' = "done"
    /\ UNCHANGED <<videoVars, collageVars, matchVars>>

\* lines 13-17: the call of create_collage
GenerateCollage ==
    /\ pc = "generate_collage"
    /\ images_path_list # <<>>
    /\ pc' = "create_collage"
    /\ UNCHANGED <<videoVars, collageVars, matchVars>>

\* lines 28-58: the images are opened, the grid and the tile size computed
CreateCollageGrid ==
    /\ pc = "create_collage"
    /\ LET num_images == Len(images_path_list)
           c == GridCols(num_images)
           r == GridRows(num_images, c)
       IN  /\ cols' = c
           /\ rows' = r
           /\ thumb_width' = collage_width \div c
           /\ thumb_height' = collage_height \div r
    /\ x_offset' = 0
    /\ y_offset' = 0
    /\ pasted' = <<>>
    /\ pc' = "paste"
    /\ UNCHANGED <<videoVars, images_path_list, collage_saved, matchVars>>

\* lines 63-68: one iteration of the paste loop
Paste ==
    /\ pc = "paste"
    /\ Len(pasted) < Len(images_path_list)
    /\ pasted' = Append(pasted, [x |-> x_offset, y |-> y_offset])
    /\ IF x_offset + thumb_width >= collage_width
       THEN /\ x_offset' = 0
            /\ y_offset' = y_offset + thumb_height
       ELSE /\ x_offset' = x_offset + thumb_width
            /\ y_offset' = y_offset
    /\ UNCHANGED <<pc, videoVars, images_path_list, cols, rows, thumb_width,
                   thumb_height, collage_saved, matchVars>>

\* lines 70-72: the collage is written
SaveCollage ==
    /\ pc = "paste"
    /\ Len(pasted) = Len(images_path_list)
    /\ collage_saved' = TRUE
    /\ pc' = "done"
    /\ UNCHANGED <<videoVars, images_path_list, cols, rows, thumb_width,
                   thumb_height, x_offset, y_offset, pasted, matchVars>>

-----------------------------------------------------------------------------
(* video_search_by_image.py: find_matched_captions *)

MaxScenes == 2      \* scenes of the caption store

\* str.lower() on the letters of the model
Lower(c) == CASE c = "M" -> "m" [] c = "A" -> "a" [] OTHER -> c

LowerStr(s) == [i \in 1..Len(s) |-> Lower(s[i])]

\* fuzz.partial_ratio (fuzzywuzzy): the best percentage of equal aligned
\* characters of the shorter string against a window of the longer one;
\* 0 when a string is empty
PartialRatio(s1, s2) ==
    LET shorter == IF Len(s1) <= Len(s2) THEN s1 ELSE s2
        longer  == IF Len(s1) <= Len(s2) THEN s2 ELSE s1
        m(w)    == Cardinality({i \in 1..Len(shorter) : shorter[i] = longer[w + i - 1]})
        best    == CHOOSE b \in 0..Len(shorter) :
                       /\ \E w \in 1..(Len(longer) - Len(shorter) + 1) : m(w) = b
                       /\ \A w \in 1..(Len(longer) - Len(shorter) + 1) : m(w) <= b
    IN  IF Len(shorter) = 0 THEN 0
        ELSE RoundDiv(100 * best, Len(shorter))

AcceptsBelow(similarity, threshold) == similarity <= threshold

\* line 58: similarity >= THRESHOLD
Accepts(similarity, threshold) == similarity >= threshold

Similarity(word, caption) == PartialRatio(LowerStr(word), LowerStr(caption))

\* lines 56-59: the scenes appended, in the order of the mapping
RECURSIVE MatchedScenes(_, _, _, _)
MatchedScenes(items, word, threshold, i) ==
    IF i > Len(items) THEN <<>>
    ELSE (IF Accepts(Similarity(word, items[i].caption), threshold)
          THEN <<items[i].scene>> ELSE <<>>)
         \o MatchedScenes(items, word, threshold, i + 1)

Queries ==
    { <<"m", "a", "r", "i", "o">>, <<"M", "a", "r", "i", "o">>, <<"c", "o">> }

Captions ==
    { <<"s", "u", "p", "e", "r", " ", "m", "a", "r", "i", "o">>,
      <<"M", "A", "r", "i", "a">>,
      <<"c", "o", "o", "k">>,
      <<>> }

\* the mappings of the store: scene i -> caption
CaptionStores ==
    UNION {[1..n -> Captions] : n \in 0..MaxScenes}

StoreItems(store) == [i \in 1..Len(store) |-> [scene |-> i, caption |-> store[i]]]

\* lines 48-65 under config.THRESHOLD = t, the store being valid JSON
FindMatchedCaptions ==
    /\ pc = "match"
    /\ scene_captions.json_valid
    /\ \E t \in Thresholds :
          /\ ~results[t].done
          /\ results' = [results EXCEPT ![t] =
                 [done |-> TRUE,
                  out  |-> MatchedScenes(scene_captions.items, input_word, t, 1)]]
    /\ UNCHANGED <<pc, videoVars, collageVars, input_word, scene_captions>>

\* lines 61-63: json.load raises JSONDecodeError, nothing was appended
FindMatchedCaptionsInvalid ==
    /\ pc = "match"
    /\ ~scene_captions.json_valid
    /\ \E t \in Thresholds :
          /\ ~results[t].done
          /\ results' = [results EXCEPT ![t] = [done |-> TRUE, out |-> <<>>]]
    /\ UNCHANGED <<pc, videoVars, collageVars, input_word, scene_captions>>

-----------------------------------------------------------------------------
(* Specifications *)

NoVideo ==
    /\ run = 0
    /\ file_state = "none"
    /\ retries = 0
    /\ time_points = <<>>
    /\ idx = 1
    /\ video = "none"
    /\ extracted_files = <<>>
    /\ dir_files = {}
    /\ log = <<>>

\* the video-query program, run up to MaxRuns times on one directory
Init ==
    /\ pc = "idle"
    /\ NoVideo
    /\ frames_per_second \in FrameRates
    /\ NoCollage
    /\ NoMatch

Next ==
    \/ SearchByVideo
    \/ Poll
    \/ GenerateContent
    \/ GenerateInvalid
    \/ OpenVideoFails
    \/ OpenVideo
    \/ ExtractInvalid
    \/ ExtractRaises
    \/ ExtractFrame
    \/ ReleaseAndReturn
    \/ ListDir
    \/ GenerateCollageEmpty
    \/ GenerateCollage
    \/ CreateCollageGrid
    \/ Paste
    \/ SaveCollage

Spec == Init /\ [][Next]_vars

\* generate_collage on every list of up to MaxImages images
InitCollage ==
    /\ pc = "generate_collage"
    /\ NoVideo
    /\ frames_per_second = 30
    /\ images_path_list \in {[i \in 1..n |-> i] : n \in 0..MaxImages}
    /\ cols = 0 /\ rows = 0 /\ thumb_width = 0 /\ thumb_height = 0
    /\ x_offset = 0 /\ y_offset = 0
    /\ pasted = <<>>
    /\ collage_saved = FALSE
    /\ NoMatch

NextCollage ==
    \/ GenerateCollageEmpty
    \/ GenerateCollage
    \/ CreateCollageGrid
    \/ Paste
    \/ SaveCollage

SpecCollage == InitCollage /\ [][NextCollage]_vars

\* find_matched_captions on every store and query, under each THRESHOLD
InitMatch ==
    /\ pc = "match"
    /\ NoVideo
    /\ frames_per_second = 30
    /\ NoCollage
    /\ input_word \in Queries
    /\ \E store \in CaptionStores, valid \in BOOLEAN :
          scene_captions = [json_valid |-> valid, items |-> StoreItems(store)]
    /\ results = [t \in Thresholds |-> [done |-> FALSE, out |-> <<>>]]

NextMatch ==
    \/ FindMatchedCaptions
    \/ FindMatchedCaptionsInvalid

SpecMatch == InitMatch /\ [][NextMatch]_vars

-----------------------------------------------------------------------------
(* Properties *)

Processed == {e \in Range(log) : e.outcome # "invalid"}

Saved == {e \in Range(log) : e.outcome = "saved"}

\* the fields of a time code weighted left to right
RECURSIVE Horner(_, _)
Horner(fields, k) ==
    IF k = 0 THEN 0 ELSE Horner(fields, k - 1) * 60 + FloatMs(fields[k])

\* C1: for every n >= 1 the grid of create_collage covers the images,
\* rows * cols >= n, and is the function of n alone that takes the least
\* cols with cols * cols > n (1 for n = 1) and the least rows with
\* rows * cols >= n; n = 1 gives 1x1, n = 5 gives 3 columns and 2 rows,
\* n = 10 gives 4 columns and 3 rows.
GridCoversImages ==
    pc \in {"paste", "done"} /\ images_path_list # <<>> =>
        LET n == Len(images_path_list)
        IN  /\ rows * cols >= n
            /\ cols >= 1 /\ rows >= 1
            /\ n > 1 => cols * cols > n /\ (cols - 1) * (cols - 1) <= n
            /\ (rows - 1) * cols < n
            /\ n = 1 => cols = 1 /\ rows = 1
            /\ n = 5 => cols = 3 /\ rows = 2
            /\ n = 10 => cols = 4 /\ rows = 3

GridOfTenImages ==
    /\ pc = "paste"
    /\ Len(images_path_list) = 10
    /\ cols = 4 /\ rows = 3

\* C2: the offset computed for a time code of numeric fields is the sum of
\* field * 60^position, positions counted from the rightmost field:
\* H:MM:SS.sss gives H*3600 + MM*60 + SS.sss ('01:02:03.5' gives 3723.5) and
\* a single field is taken as seconds.
TimeCodeIsPositionalSum ==
    \A e \in Processed :
        LET chars  == time_points[e.tp].chars
            fields == Split(chars)
        IN  /\ e.ms = Horner(fields, Len(fields))
            /\ Len(fields) = 3 =>
                   e.ms = FloatMs(fields[1]) * 3600 + FloatMs(fields[2]) * 60
                          + FloatMs(fields[3])
            /\ Len(fields) = 1 => e.ms = FloatMs(chars)
            /\ chars = <<"0", "1", ":", "0", "2", ":", "0", "3", ".", "5">> =>
                   e.ms = 3723500
            /\ chars = <<"0", "0", ":", "1", "0", ".", "1", "0", "5">> =>
                   e.ms = 10105
            /\ chars = <<"4", "2">> => e.ms = 42000

ThreeFieldCodeParsed ==
    \E e \in Processed :
        /\ Len(Split(time_points[e.tp].chars)) = 3
        /\ e.ms = 3723500

\* C3: once the video is open the batch is never aborted by one element:
\* when the call has ended, every element of the list has ended with a frame
\* saved or with a diagnostic.
BatchNeverAborts ==
    pc # "loop" /\ video # "none" => Len(log) = Len(time_points)

\* C4: the handle is released on every path out of
\* extract_frames_from_video, a return or a raise.
HandleReleasedOnEveryExit ==
    pc # "loop" => video # "open"

\* C5 as stated: the frame sought is round(offset * frame_rate).
FrameIndexIsRounded ==
    \A e \in Processed : e.frame = FrameNumberRounded(e.ms, frames_per_second)

\* C5 as amended: the frame sought is int(offset * frame_rate), the product
\* truncated to the integer below it: frame <= offset * frame_rate < frame + 1.
FrameIndexIsTruncated ==
    \A e \in Processed :
        /\ e.frame * 1000 <= e.ms * frames_per_second
        /\ e.ms * frames_per_second < (e.frame + 1) * 1000

FrameBelowNearest ==
    \E e \in Saved :
        /\ e.ms = 20030
        /\ e.frame # FrameNumberRounded(e.ms, frames_per_second)

\* C6: the distinct frame files a batch leaves are as many as the distinct
\* offsets that decoded, so no decoded frame is overwritten by the frame of
\* another offset of the batch.
OneFilePerDecodedOffset ==
    pc = "listdir" =>
        Cardinality({e.file : e \in Saved}) = Cardinality({e.ms : e \in Saved})

\* C7: the list a run passes to generate_collage is the set of files that
\* run extracted; a run without a decoded frame passes an empty list and
\* writes no collage.
CollageOfThisRunsFrames ==
    /\ pc = "generate_collage" => Range(images_path_list) = Range(extracted_files)
    /\ pc = "done" /\ extracted_files = <<>> => ~collage_saved

\* C8: a scene is returned exactly when its score is >= THRESHOLD, so the
\* result under a higher THRESHOLD is a subset of the result under a lower
\* one, and an empty mapping gives an empty result.
ThresholdMonotonic ==
    /\ \A t1, t2 \in Thresholds :
           results[t1].done /\ results[t2].done /\ t1 <= t2 =>
               Range(results[t2].out) \subseteq Range(results[t1].out)
    /\ \A t \in Thresholds :
           results[t].done /\ scene_captions.json_valid =>
               Range(results[t].out) =
                   {it.scene : it \in {i \in Range(scene_captions.items) :
                                         Similarity(input_word, i.caption) >= t}}
    /\ \A t \in Thresholds :
           results[t].done /\ scene_captions.items = <<>> => results[t].out = <<>>

HigherThresholdDropsScene ==
    /\ results[50].done /\ results[100].done
    /\ Len(results[50].out) = 2
    /\ Len(results[100].out) = 1

\* C9: on the 800x600 canvas the k-th image (from 0) is pasted at column
\* k mod cols and row k div cols of the grid; no two tiles overlap and every
\* tile lies within the canvas.
TilesOnGrid ==
    \A k \in 1..Len(pasted) :
        /\ pasted[k].x = ((k - 1) % cols) * thumb_width
        /\ pasted[k].y = ((k - 1) \div cols) * thumb_height
        /\ pasted[k].x + thumb_width <= collage_width
        /\ pasted[k].y + thumb_height <= collage_height
        /\ \A j \in 1..(k - 1) : pasted[j] # pasted[k]

\* C10: the poll loop makes at most max_retries polls.
PollLoopBounded ==
    retries <= max_retries

=============================================================================
